---- MODULE Spec2Model ----
(***************************************************************************)
(* check_build.py: the pre-publish checklist runner of swagger-sdk.        *)
(*                                                                         *)
(* Texts are sequences of one-character strings, so that startswith,       *)
(* split, strip and the `in` substring test are computed as Python         *)
(* computes them.  A file is absent, a directory (os.path.exists is true   *)
(* and open() raises IsADirectoryError), or a regular file with contents.  *)
(* Standard output is the sequence `out` of printed lines, each a tuple of *)
(* strings: a tag, then the interpolated parts of the line.                *)
(***************************************************************************)
EXTENDS Integers, Sequences, FiniteSets, TLC

VARIABLES fs, pc, i, results, ret, out, k, all_passed, exit_code

vars == <<fs, pc, i, results, ret, out, k, all_passed, exit_code>>

(***************************************************************************)
(* Bounds of the model                                                     *)
(***************************************************************************)
\* largest number of lines of swagger_sdk/__init__.py in SpecVersion
MaxLines == 2

(***************************************************************************)
(* String literals of the source                                           *)
(***************************************************************************)
NL == "\n"
EQ == "="
DQ == "\""
SQ == "'"
WHITESPACE == {" ", "\n", "\t"}

VERSION_KEY == <<"_","_","v","e","r","s","i","o","n","_","_">>
PATTERN_HEAD == <<"v","e","r","s","i","o","n"," ","="," ","\"">>
PATTERN_TAIL == <<"\"">>
EMAIL == <<"y","o","u","r",".","e","m","a","i","l","@","e","x","a","m","p","l","e",".","c","o","m">>
USERNAME == <<"y","o","u","r","u","s","e","r","n","a","m","e">>
YOUR_NAME == <<"Y","o","u","r"," ","N","a","m","e">>

INIT_PY == "swagger_sdk/__init__.py"
PYPROJECT == "pyproject.toml"
SETUP_PY == "setup.py"

package_files ==
    << "swagger_sdk/__init__.py", "swagger_sdk/builder.py",
       "swagger_sdk/models.py", "swagger_sdk/enums.py" >>

build_files_without_pyproject ==
    << "setup.py", "MANIFEST.in", "LICENSE", "README.md" >>

build_files ==
    << "pyproject.toml", "setup.py", "MANIFEST.in", "LICENSE", "README.md" >>

Range(s) == { s[n] : n \in 1..Len(s) }

Paths == Range(package_files) \cup Range(build_files)

(***************************************************************************)
(* The filesystem as the script sees it                                    *)
(***************************************************************************)
Absent == [kind |-> "absent", data |-> <<>>]
Dir == [kind |-> "dir", data |-> <<>>]
File(data) == [kind |-> "file", data |-> data]

\* os.path.exists / Path.exists: true of regular files and of directories
exists(f, filepath) == f[filepath].kind # "absent"

\* open(filepath, "r"): raises on a directory
opens(f, filepath) == f[filepath].kind = "file"

(***************************************************************************)
(* Python string operations used by the checks                             *)
(***************************************************************************)
\* s.startswith(p)
startswith(s, p) == Len(p) <= Len(s) /\ SubSeq(s, 1, Len(p)) = p

\* p in s
contains(s, p) ==
    \E n \in 1..(Len(s) - Len(p) + 1) : SubSeq(s, n, n + Len(p) - 1) = p

\* for line in f: the lines of a text, each keeping its line end
RECURSIVE readlines(_)
readlines(s) ==
    IF s = <<>> THEN <<>>
    ELSE IF \E n \in 1..Len(s) : s[n] = NL
         THEN LET n == CHOOSE m \in 1..Len(s) :
                           s[m] = NL /\ \A j \in 1..(m - 1) : s[j] # NL
              IN  <<SubSeq(s, 1, n)>> \o readlines(SubSeq(s, n + 1, Len(s)))
         ELSE <<s>>

\* s.split(c), c one character
RECURSIVE split(_, _)
split(s, c) ==
    IF \E n \in 1..Len(s) : s[n] = c
    THEN LET n == CHOOSE m \in 1..Len(s) :
                      s[m] = c /\ \A j \in 1..(m - 1) : s[j] # c
         IN  <<SubSeq(s, 1, n - 1)>> \o split(SubSeq(s, n + 1, Len(s)), c)
    ELSE <<s>>

RECURSIVE lstrip(_, _)
lstrip(s, chars) ==
    IF s # <<>> /\ s[1] \in chars THEN lstrip(Tail(s), chars) ELSE s

RECURSIVE rstrip(_, _)
rstrip(s, chars) ==
    IF s # <<>> /\ s[Len(s)] \in chars
    THEN rstrip(SubSeq(s, 1, Len(s) - 1), chars) ELSE s

\* s.strip() with chars = WHITESPACE, s.strip('"') with chars = {DQ}
strip(s, chars) == rstrip(lstrip(s, chars), chars)

(***************************************************************************)
(* How a call of a check function ends, and what it printed                *)
(***************************************************************************)
NoCall == [kind |-> "none", value |-> FALSE, exc |-> "none"]
Return(b) == [kind |-> "return", value |-> b, exc |-> "none"]
Raise(e) == [kind |-> "raise", value |-> FALSE, exc |-> e]

Done(printed, how) == [out |-> printed, ret |-> how]

(***************************************************************************)
(* check_file_exists and the two required-file checks                      *)
(***************************************************************************)
check_file_exists(f, filepath) ==
    IF exists(f, filepath)
    THEN Done(<< <<"file", "OK", filepath>> >>, Return(TRUE))
    ELSE Done(<< <<"file", "FAIL", filepath>> >>, Return(FALSE))

\* the loop "for file in required_files": every file is checked, all_exist
\* is cleared by each missing one
RECURSIVE required_loop(_, _)
required_loop(f, files) ==
    IF files = <<>> THEN Done(<<>>, Return(TRUE))
    ELSE LET head == check_file_exists(f, Head(files))
             rest == required_loop(f, Tail(files))
         IN  Done(head.out \o rest.out,
                  Return(head.ret.value /\ rest.ret.value))

\* a loop that stops at the first missing file
RECURSIVE required_loop_short_circuit(_, _)
required_loop_short_circuit(f, files) ==
    IF files = <<>> THEN Done(<<>>, Return(TRUE))
    ELSE LET head == check_file_exists(f, Head(files))
         IN  IF ~head.ret.value THEN head
             ELSE LET rest == required_loop_short_circuit(f, Tail(files))
                  IN  Done(head.out \o rest.out, rest.ret)

check_package_structure_short_circuit(f) ==
    LET loop == required_loop_short_circuit(f, package_files)
    IN  Done(<< <<"heading", "check_package_structure">> >> \o loop.out, loop.ret)

check_package_structure(f) ==
    LET loop == required_loop(f, package_files)
    IN  Done(<< <<"heading", "check_package_structure">> >> \o loop.out, loop.ret)

check_build_files_without_pyproject(f) ==
    LET loop == required_loop(f, build_files_without_pyproject)
    IN  Done(<< <<"heading", "check_build_files">> >> \o loop.out, loop.ret)

check_build_files(f) ==
    LET loop == required_loop(f, build_files)
    IN  Done(<< <<"heading", "check_build_files">> >> \o loop.out, loop.ret)

(***************************************************************************)
(* check_version_consistency                                               *)
(***************************************************************************)
\* the index of the first line that starts with __version__, 0 if none
first_version_line(lines) ==
    IF \E n \in 1..Len(lines) : startswith(lines[n], VERSION_KEY)
    THEN CHOOSE n \in 1..Len(lines) :
             /\ startswith(lines[n], VERSION_KEY)
             /\ \A j \in 1..(n - 1) : ~startswith(lines[j], VERSION_KEY)
    ELSE 0

\* line.split("=")[1].strip().strip('"').strip("'")
version_of_line(line) ==
    strip(strip(strip(split(line, EQ)[2], WHITESPACE), {DQ}), {SQ})

\* the for loop over the lines of __init__.py: version_in_init stays None
\* ("none"), is assigned ("value"), or split("=")[1] raises IndexError
version_in_init(data) ==
    LET lines == readlines(data)
        n == first_version_line(lines)
    IN  IF n = 0 THEN [kind |-> "none", v |-> <<>>]
        ELSE IF Len(split(lines[n], EQ)) < 2
             THEN [kind |-> "raise", v |-> <<>>]
             ELSE [kind |-> "value", v |-> version_of_line(lines[n])]

\* f'version = "{version_in_init}"'
version_pattern(v) == PATTERN_HEAD \o v \o PATTERN_TAIL

\* the part of check_version_consistency after the version was printed
check_pyproject_version_strict(f, v) ==
    IF exists(f, PYPROJECT)
    THEN IF ~opens(f, PYPROJECT)
         THEN Done(<<>>, Raise("IsADirectoryError"))
         ELSE IF contains(f[PYPROJECT].data, version_pattern(v))
              THEN Done(<< <<"pyproject_match">> \o v >>, Return(TRUE))
              ELSE Done(<< <<"pyproject_mismatch">> >>, Return(FALSE))
    ELSE Done(<<>>, Return(FALSE))

check_pyproject_version(f, v) ==
    IF exists(f, PYPROJECT)
    THEN IF ~opens(f, PYPROJECT)
         THEN Done(<<>>, Raise("IsADirectoryError"))
         ELSE IF contains(f[PYPROJECT].data, version_pattern(v))
              THEN Done(<< <<"pyproject_match">> \o v >>, Return(TRUE))
              ELSE Done(<< <<"pyproject_mismatch">> >>, Return(FALSE))
    ELSE Done(<<>>, Return(TRUE))

check_version_consistency_any_pyproject(f) ==
    LET heading == << <<"heading", "check_version_consistency">> >>
    IN  IF ~exists(f, INIT_PY)
        THEN Done(heading \o << <<"init_missing">> >>, Return(FALSE))
        ELSE IF ~opens(f, INIT_PY)
        THEN Done(heading, Raise("IsADirectoryError"))
        ELSE LET found == version_in_init(f[INIT_PY].data)
             IN  IF found.kind = "raise"
                 THEN Done(heading, Raise("IndexError"))
                 ELSE IF found.kind = "none" \/ found.v = <<>>
                 THEN Done(heading \o << <<"no_version">> >>, Return(FALSE))
                 ELSE Done(heading \o << <<"init_version">> \o found.v >>,
                           Return(TRUE))

check_version_consistency(f) ==
    LET heading == << <<"heading", "check_version_consistency">> >>
    IN  IF ~exists(f, INIT_PY)
        THEN Done(heading \o << <<"init_missing">> >>, Return(FALSE))
        ELSE IF ~opens(f, INIT_PY)
        THEN Done(heading, Raise("IsADirectoryError"))
        ELSE LET found == version_in_init(f[INIT_PY].data)
             IN  IF found.kind = "raise"
                 THEN Done(heading, Raise("IndexError"))
                 ELSE IF found.kind = "none" \/ found.v = <<>>
                 THEN Done(heading \o << <<"no_version">> >>, Return(FALSE))
                 ELSE LET rest == check_pyproject_version(f, found.v)
                      IN  Done(heading \o << <<"init_version">> \o found.v >>
                                       \o rest.out,
                               rest.ret)

(***************************************************************************)
(* check_metadata                                                          *)
(***************************************************************************)
\* the warnings appended while pyproject.toml is scanned
pyproject_warnings(data) ==
    (IF contains(data, EMAIL) THEN << <<"warn", PYPROJECT, "email">> >> ELSE <<>>)
    \o (IF contains(data, USERNAME)
        THEN << <<"warn", PYPROJECT, "username">> >> ELSE <<>>)

\* the warnings appended while setup.py is scanned
setup_warnings(data) ==
    IF contains(data, YOUR_NAME) THEN << <<"warn", SETUP_PY, "author">> >> ELSE <<>>

check_metadata(f) ==
    LET heading == << <<"heading", "check_metadata">> >>
    IN  IF exists(f, PYPROJECT) /\ ~opens(f, PYPROJECT)
        THEN Done(heading, Raise("IsADirectoryError"))
        ELSE IF exists(f, SETUP_PY) /\ ~opens(f, SETUP_PY)
        THEN Done(heading, Raise("IsADirectoryError"))
        ELSE LET warnings ==
                     (IF exists(f, PYPROJECT)
                      THEN pyproject_warnings(f[PYPROJECT].data) ELSE <<>>)
                     \o (IF exists(f, SETUP_PY)
                         THEN setup_warnings(f[SETUP_PY].data) ELSE <<>>)
             IN  IF warnings # <<>>
                 THEN Done(heading \o warnings, Return(FALSE))
                 ELSE Done(heading \o << <<"metadata_ok">> >>, Return(TRUE))

(***************************************************************************)
(* main: the checklist runner                                              *)
(***************************************************************************)
\* the list "checks": (label, function); the labels of the source are
\* 包结构, 版本一致性, 构建文件, 元数据
checks ==
    << <<"package structure", "check_package_structure">>,
       <<"version consistency", "check_version_consistency">>,
       <<"build files", "check_build_files">>,
       <<"metadata", "check_metadata">> >>

\* check_func()
call(fname, f) ==
    CASE fname = "check_package_structure" -> check_package_structure(f)
      [] fname = "check_version_consistency" -> check_version_consistency(f)
      [] fname = "check_build_files" -> check_build_files(f)
      [] fname = "check_metadata" -> check_metadata(f)

\* results.append((name, result)), with a result that also needs every
\* earlier check to have passed
appended_chained(rs, name, result) ==
    Append(rs, <<name, result /\ \A n \in 1..Len(rs) : rs[n][2]>>)

\* results.append((name, result))
appended(rs, name, result) == Append(rs, <<name, result>>)

\* results.append((name, False)) of the except clause
caught(rs, name) == Append(rs, <<name, FALSE>>)

\* a marker that ignores the result
status_always_ok(result) == "OK"

\* status = "[OK] 通过" if result else "[FAIL] 失败"
status(result) == IF result THEN "OK" ELSE "FAIL"

\* the three banner prints and "results = []"
main_banner ==
    /\ pc = "start"
    /\ out' = Append(out, <<"banner">>)
    /\ results' = <<>>
    /\ i' = 1
    /\ pc' = "loop"
    /\ UNCHANGED <<fs, ret, k, all_passed, exit_code>>

\* where main goes once the loop body has run for checks[i]
after_body(n) == IF n = Len(checks) THEN "summary_header" ELSE "loop"

\* one iteration of the for loop whose check_func() returns
main_loop_try ==
    /\ pc = "loop"
    /\ i <= Len(checks)
    /\ LET done == call(checks[i][2], fs)
       IN  /\ done.ret.kind = "return"
           /\ ret' = done.ret
           /\ out' = out \o done.out
           /\ results' = appended(results, checks[i][1], done.ret.value)
    /\ pc' = after_body(i)
    /\ i' = i + 1
    /\ UNCHANGED <<fs, k, all_passed, exit_code>>

\* an iteration whose exception leaves main
main_loop_except_propagates ==
    /\ pc = "loop"
    /\ i <= Len(checks)
    /\ LET done == call(checks[i][2], fs)
       IN  /\ done.ret.kind = "raise"
           /\ ret' = done.ret
           /\ out' = out \o done.out
    /\ pc' = "crashed"
    /\ UNCHANGED <<fs, i, results, k, all_passed, exit_code>>

\* one iteration of the for loop whose check_func() raises an Exception
main_loop_except ==
    /\ pc = "loop"
    /\ i <= Len(checks)
    /\ LET done == call(checks[i][2], fs)
       IN  /\ done.ret.kind = "raise"
           /\ ret' = done.ret
           /\ out' = out \o done.out
                         \o << <<"check_error", checks[i][1], done.ret.exc>> >>
           /\ results' = caught(results, checks[i][1])
    /\ pc' = after_body(i)
    /\ i' = i + 1
    /\ UNCHANGED <<fs, k, all_passed, exit_code>>

\* the three prints that head the summary, and "all_passed = True"
main_summary_header ==
    /\ pc = "summary_header"
    /\ out' = Append(out, <<"summary_header">>)
    /\ all_passed' = TRUE
    /\ k' = 1
    /\ pc' = "summary"
    /\ UNCHANGED <<fs, i, results, ret, exit_code>>

\* one iteration of "for name, result in results"
main_summary_line ==
    /\ pc = "summary"
    /\ k <= Len(results)
    /\ out' = Append(out, <<"summary", results[k][1], status(results[k][2])>>)
    /\ all_passed' = (all_passed /\ results[k][2])
    /\ k' = k + 1
    /\ pc' = IF k = Len(results) THEN "verdict" ELSE "summary"
    /\ UNCHANGED <<fs, i, results, ret, exit_code>>

\* a verdict that always reports success
exit_code_of_always_zero(passed) == 0

\* return 0 / return 1
exit_code_of(passed) == IF passed THEN 0 ELSE 1

\* the verdict print and the return
main_verdict ==
    /\ pc = "verdict"
    /\ out' = Append(out, <<"verdict", status(all_passed)>>)
    /\ exit_code' = {exit_code_of(all_passed)}
    /\ pc' = "done"
    /\ UNCHANGED <<fs, i, results, ret, k, all_passed>>

(***************************************************************************)
(* The files a run can find in the working directory                       *)
(***************************************************************************)
V10 == <<"1",".","0">>
V20 == <<"2",".","0">>
V1 == <<"1">>
V1EQ0 == <<"1","=","0">>
\* keys of other assignments: __version_info__ does not start with
\* __version__, __version__s does
INFO_KEY == <<"_","_","v","e","r","s","i","o","n","_","i","n","f","o","_","_">>
LONGER_KEY == VERSION_KEY \o <<"s">>
NAME_KEY == <<"n","a","m","e">>
ASSIGN == <<" ","="," ">>

double_quoted(v) == <<DQ>> \o v \o <<DQ>>
single_quoted(v) == <<SQ>> \o v \o <<SQ>>

\* a line "key sep value" with its line end
text_line(key, sep, value) == key \o sep \o value \o <<NL>>

\* the files whose contents no check reads
PlainPaths == Paths \ {INIT_PY, PYPROJECT, SETUP_PY}

working_directory(init, pyproject, setup, present) ==
    [p \in Paths |->
        IF p = INIT_PY THEN init
        ELSE IF p = PYPROJECT THEN pyproject
        ELSE IF p = SETUP_PY THEN setup
        ELSE IF p \in present THEN File(<<>>) ELSE Absent]

\* swagger_sdk/__init__.py of a run of main
InitPyOfMain ==
    { Absent, Dir } \cup
    { File(d) : d \in { text_line(VERSION_KEY, ASSIGN, double_quoted(V10)),
                        text_line(VERSION_KEY, ASSIGN, double_quoted(V20)),
                        text_line(NAME_KEY, ASSIGN, double_quoted(V10)),
                        text_line(VERSION_KEY, <<>>, <<>>) } }

\* pyproject.toml of a run of main
PyprojectOfMain ==
    { Absent, Dir } \cup
    { File(v \o p) :
        v \in { <<>>, text_line(<<>>, <<>>, version_pattern(V10)) },
        p \in { <<>>, EMAIL, USERNAME, YOUR_NAME } }

\* setup.py of a run of main
SetupOfMain == { Absent, Dir } \cup { File(d) : d \in { <<>>, YOUR_NAME, EMAIL } }

FsOfMain ==
    { working_directory(a, b, c, present) :
        a \in InitPyOfMain, b \in PyprojectOfMain, c \in SetupOfMain,
        present \in SUBSET PlainPaths }

Init ==
    /\ fs \in FsOfMain
    /\ pc = "start"
    /\ i = 1
    /\ results = <<>>
    /\ ret = NoCall
    /\ out = <<>>
    /\ k = 1
    /\ all_passed = TRUE
    /\ exit_code = {}

Next ==
    \/ main_banner
    \/ main_loop_try
    \/ main_loop_except
    \/ main_summary_header
    \/ main_summary_line
    \/ main_verdict

Spec == Init /\ [][Next]_vars

(***************************************************************************)
(* check_version_consistency called on its own, over more contents of      *)
(* swagger_sdk/__init__.py and pyproject.toml                              *)
(***************************************************************************)
VersionLines ==
    { text_line(key, sep, value) :
        key \in { VERSION_KEY, INFO_KEY, LONGER_KEY },
        sep \in { <<>>, ASSIGN },
        value \in { double_quoted(V10), single_quoted(V20),
                    double_quoted(V1EQ0), <<>> } }

RECURSIVE texts_of(_)
texts_of(n) ==
    IF n = 0 THEN { <<>> }
    ELSE texts_of(n - 1) \cup
         { l \o t : l \in VersionLines, t \in texts_of(n - 1) }

InitPyOfVersion == { Absent, Dir } \cup { File(d) : d \in texts_of(MaxLines) }

PyprojectOfVersion ==
    { Absent, Dir } \cup
    { File(d) : d \in { <<>>,
                        text_line(<<>>, <<>>, version_pattern(V10)),
                        text_line(<<>>, <<>>, version_pattern(V20)),
                        text_line(<<>>, <<>>, version_pattern(V1)),
                        text_line(NAME_KEY, ASSIGN, double_quoted(V10)) } }

FsOfVersion ==
    { working_directory(a, b, File(<<>>), PlainPaths) :
        a \in InitPyOfVersion, b \in PyprojectOfVersion }

InitVersion ==
    /\ fs \in FsOfVersion
    /\ pc = "call"
    /\ i = 1
    /\ results = <<>>
    /\ ret = NoCall
    /\ out = <<>>
    /\ k = 1
    /\ all_passed = TRUE
    /\ exit_code = {}

\* check_version_consistency() called and run to its return or its raise
call_check_version_consistency ==
    /\ pc = "call"
    /\ LET done == check_version_consistency(fs)
       IN  /\ ret' = done.ret
           /\ out' = done.out
    /\ pc' = "returned"
    /\ UNCHANGED <<fs, i, results, k, all_passed, exit_code>>

NextVersion == call_check_version_consistency

SpecVersion == InitVersion /\ [][NextVersion]_vars

(***************************************************************************)
(* Properties                                                              *)
(***************************************************************************)
\* the lines of out that carry the tag
tagged(tag) == SelectSeq(out, LAMBDA e : e[1] = tag)

\* how the n-th check of the list ends on the files of this run
outcome(n) == call(checks[n][2], fs).ret

returned_true(r) == r.kind = "return" /\ r.value
returned_false(r) == r.kind = "return" /\ ~r.value

loop_finished == pc \in {"summary_header", "summary", "verdict", "done"}

\* C1: main returns 1 if and only if at least one of the four checks
\* returned false or raised, and 0 otherwise; no other value is returned,
\* and none before main ends.
C1_ExitCode ==
    /\ exit_code \subseteq {0, 1}
    /\ pc # "done" => exit_code = {}
    /\ pc = "done" =>
         exit_code = { IF \E n \in 1..Len(checks) : ~returned_true(outcome(n))
                       THEN 1 ELSE 0 }

C1_Witness ==
    /\ pc = "done"
    /\ exit_code = {1}
    /\ outcome(1).kind = "return" /\ outcome(1).value
    /\ outcome(2).kind = "raise"
    /\ outcome(3).kind = "return" /\ outcome(3).value
    /\ outcome(4).kind = "return" /\ outcome(4).value

\* C2: an exception of a check is caught: one failed result and one error
\* line are recorded for that check, the later checks still run, and main
\* goes on to its summary; whichever checks raise, the four checks are
\* invoked once each, in the order of the list.
C2_RaiseContained ==
    /\ pc # "crashed"
    /\ pc = "loop" => i \in 1..Len(checks)
    /\ Len(results) = (IF pc = "start" THEN 0
                       ELSE IF pc = "loop" THEN i - 1 ELSE Len(checks))
    /\ tagged("heading") =
           [n \in 1..Len(results) |-> <<"heading", checks[n][2]>>]
    /\ \A n \in 1..Len(results) :
           /\ results[n][1] = checks[n][1]
           /\ Len(SelectSeq(out, LAMBDA e : e[1] = "check_error"
                                             /\ e[2] = checks[n][1]))
                  = (IF outcome(n).kind = "raise" THEN 1 ELSE 0)
           /\ outcome(n).kind = "raise" => results[n][2] = FALSE

C2_Witness ==
    /\ pc = "done"
    /\ outcome(2).kind = "raise"
    /\ outcome(4).kind = "raise"
    /\ Len(results) = 4
    /\ Len(tagged("heading")) = 4

\* the index in out of the only line with the tag, 0 if there is none
index_of(tag) ==
    IF \E n \in 1..Len(out) : out[n][1] = tag
    THEN CHOOSE n \in 1..Len(out) : out[n][1] = tag
    ELSE 0

\* C3: the summary starts only when the four checks have finished; it has
\* one line per check, in the order the checks ran, each with the marker of
\* the recorded result (FAIL for a check that raised); the verdict and the
\* exit code come after the last summary line.
C3_Summary ==
    /\ (\E n \in 1..Len(out) : out[n][1] \in {"summary_header", "summary", "verdict"})
         => /\ loop_finished
            /\ Len(results) = Len(checks)
            /\ \A n \in 1..Len(out) :
                   out[n][1] \in {"heading", "file", "check_error"}
                       => n < index_of("summary_header")
    /\ \A n \in 1..Len(tagged("summary")) :
           /\ tagged("summary")[n] =
                  <<"summary", checks[n][1],
                    IF results[n][2] THEN "OK" ELSE "FAIL">>
           /\ outcome(n).kind = "raise" => tagged("summary")[n][3] = "FAIL"
    /\ Len(tagged("summary")) =
           (IF pc = "summary" THEN k - 1
            ELSE IF pc \in {"verdict", "done"} THEN Len(checks) ELSE 0)
    /\ exit_code # {} =>
           /\ pc = "done"
           /\ out[Len(out)][1] = "verdict"
           /\ Len(tagged("verdict")) = 1
           /\ \A n \in 1..(Len(out) - 1) : out[n][1] = "summary" =>
                  index_of("summary_header") < n
           /\ SubSeq(out, Len(out) - Len(checks), Len(out) - 1) = tagged("summary")
    /\ pc # "done" => tagged("verdict") = <<>>

C3_Witness ==
    /\ pc = "done"
    /\ outcome(2).kind = "raise"
    /\ returned_false(outcome(3))
    /\ returned_true(outcome(4))
    /\ tagged("summary")[2][3] = "FAIL"
    /\ tagged("summary")[4][3] = "OK"

\* what the version check reads out of swagger_sdk/__init__.py
extracted == version_in_init(fs[INIT_PY].data)

has_version ==
    fs[INIT_PY].kind = "file" /\ extracted.kind = "value" /\ extracted.v # <<>>

pattern_in_pyproject ==
    /\ fs[INIT_PY].kind = "file" /\ extracted.kind = "value"
    /\ fs[PYPROJECT].kind = "file"
    /\ contains(fs[PYPROJECT].data, PATTERN_HEAD \o extracted.v \o PATTERN_TAIL)

\* C4, as stated: check_version_consistency returns true if and only if
\* the version value extracted from swagger_sdk/__init__.py appears inside
\* version = "<value>" in the contents of pyproject.toml.
C4_TrueIffPatternPresent ==
    pc = "returned" => (returned_true(ret) <=> pattern_in_pyproject)

\* C4, amended: check_version_consistency returns true if and only if a
\* non-empty version value is extracted from swagger_sdk/__init__.py and
\* pyproject.toml either does not exist or contains version = "<value>";
\* it returns false when swagger_sdk/__init__.py is absent, when no version
\* line is present, and when pyproject.toml is a file without the pattern.
C4_TrueIffNoContradiction ==
    pc = "returned" =>
        /\ returned_true(ret) <=>
               (has_version /\ (fs[PYPROJECT].kind = "absent" \/ pattern_in_pyproject))
        /\ fs[INIT_PY].kind = "absent" => returned_false(ret)
        /\ (fs[INIT_PY].kind = "file" /\ extracted.kind = "none")
               => returned_false(ret)
        /\ (has_version /\ fs[PYPROJECT].kind = "file" /\ ~pattern_in_pyproject)
               => returned_false(ret)

C4_Witness ==
    /\ pc = "returned"
    /\ has_version
    /\ fs[PYPROJECT].kind = "file"
    /\ ~pattern_in_pyproject
    /\ returned_false(ret)

\* C8: when swagger_sdk/__init__.py yields a non-empty version value and
\* pyproject.toml does not exist, check_version_consistency returns true
\* and does not raise.
C8_LenientWithoutPyproject ==
    (pc = "returned" /\ has_version /\ fs[PYPROJECT].kind = "absent")
        => ret = Return(TRUE)

C8_Witness ==
    /\ pc = "returned"
    /\ has_version
    /\ fs[PYPROJECT].kind = "absent"
    /\ returned_true(ret)

\* the reading of an assignment line the specification gives: the key is
\* the text before the first "=", the value all of the text after it,
\* without the surrounding whitespace and quote characters
key_of(line) == strip(split(line, EQ)[1], WHITESPACE)

value_of(line) ==
    LET n == CHOOSE m \in 1..Len(line) :
                 line[m] = EQ /\ \A j \in 1..(m - 1) : line[j] # EQ
    IN  strip(SubSeq(line, n + 1, Len(line)), WHITESPACE \cup {DQ, SQ})

is_version_assignment(line) ==
    (\E m \in 1..Len(line) : line[m] = EQ) /\ key_of(line) = VERSION_KEY

\* the value of the first version assignment, <<>> when there is none
stated_version(data) ==
    LET lines == readlines(data)
    IN  IF \E n \in 1..Len(lines) : is_version_assignment(lines[n])
        THEN value_of(lines[CHOOSE n \in 1..Len(lines) :
                 /\ is_version_assignment(lines[n])
                 /\ \A j \in 1..(n - 1) : ~is_version_assignment(lines[j])])
        ELSE <<>>

\* C7: for every contents of swagger_sdk/__init__.py the version value the
\* check uses is the value of the first version assignment: all of the text
\* after the "=", without surrounding whitespace and quotes; it is read
\* without an error, whatever the lines are.
C7_VersionOfFirstAssignment ==
    (pc = "returned" /\ fs[INIT_PY].kind = "file") =>
        /\ ret.exc # "IndexError"
        /\ LET v == stated_version(fs[INIT_PY].data)
           IN  IF v = <<>> THEN tagged("init_version") = <<>>
               ELSE tagged("init_version") = << <<"init_version">> \o v >>

\* a known placeholder is left in one of the two scanned files
placeholder_left ==
    \E p \in {PYPROJECT, SETUP_PY} : \E w \in {EMAIL, USERNAME, YOUR_NAME} :
        fs[p].kind = "file" /\ contains(fs[p].data, w)

\* C5: check_metadata returns false if and only if one of the three
\* placeholders is present in pyproject.toml or in setup.py, and true
\* otherwise (stated of the calls that return).
C5_FalseIffPlaceholder ==
    (Len(results) = Len(checks) /\ ret.kind = "return") =>
        (ret.value <=> ~placeholder_left)

all_exist(files) == \A n \in 1..Len(files) : fs[files[n]].kind # "absent"

\* the report lines a required-file check prints for its list
reports(files) ==
    [n \in 1..Len(files) |->
        <<"file", IF fs[files[n]].kind # "absent" THEN "OK" ELSE "FAIL", files[n]>>]

\* C6: check_package_structure and check_build_files return true if and
\* only if every path of their list exists, and report every path of the
\* list, also after a missing one.
C6_RequiredFiles ==
    /\ Len(results) >= 1 =>
           /\ results[1][2] = all_exist(package_files)
           /\ Len(tagged("file")) >= Len(package_files)
           /\ SubSeq(tagged("file"), 1, Len(package_files)) = reports(package_files)
    /\ Len(results) >= 3 =>
           /\ results[3][2] = all_exist(build_files)
           /\ tagged("file") = reports(package_files) \o reports(build_files)

C6_Witness ==
    /\ Len(results) >= 3
    /\ fs[package_files[1]].kind = "absent"
    /\ fs[package_files[2]].kind = "absent"
    /\ fs[package_files[4]].kind # "absent"
    /\ fs[build_files[1]].kind = "absent"
    /\ fs[build_files[5]].kind # "absent"
    /\ Len(tagged("file")) = 9
    /\ ~results[1][2] /\ ~results[3][2]

\* C9: no step changes the files; a step of the loop adds to the result
\* list exactly the entry of its own check, whose result is what that check
\* yields on the files, whatever the earlier checks yielded.
C9_Frame ==
    [][ /\ fs' = fs
        /\ results' # results =>
               /\ pc = "loop"
               /\ results' = Append(results, <<checks[i][1], returned_true(outcome(i))>>)
        /\ (pc = "loop" /\ pc' # "crashed") => Len(results') = Len(results) + 1
        /\ pc # "loop" => results' = results
      ]_vars

C9_Witness ==
    /\ Len(results) = Len(checks)
    /\ ~results[1][2]
    /\ results[2][2]
    /\ ~results[3][2]
    /\ results[4][2]

\* C10: main returns 0 only if pyproject.toml is there and contains
\* version = "<v>" for the non-empty value v read from
\* swagger_sdk/__init__.py, and all nine required files exist.
C10_ZeroNeedsPyproject ==
    (pc = "done" /\ exit_code = {0}) =>
        /\ has_version
        /\ pattern_in_pyproject
        /\ \A p \in Paths : fs[p].kind # "absent"

C10_Witness ==
    /\ pc = "done"
    /\ exit_code = {0}
    /\ returned_true(outcome(2))

====
